---------------------------- MODULE Spec2Model ----------------------------
(***************************************************************************)
(* A model of src/app.py: the hourly-activity dashboard.                   *)
(*                                                                         *)
(* The file rawData.csv is the variable csv.  load_data, cumulative and    *)
(* calculate_projection are operators; the two request handlers filters    *)
(* and chart_data are actions that read csv, take the request arguments    *)
(* (and, for chart_data, the clock) as inputs and leave the response in    *)
(* ret.                                                                    *)
(*                                                                         *)
(* Encoding of Python values.                                              *)
(*   - A value that may be None / NaN / NaT is a sequence of length at     *)
(*     most one: <<>> is the missing value, <<v>> the value v.             *)
(*   - A number is held in fixed point, as a whole number of 1/Unit.       *)
(*     Unit is a multiple of 2 and of every possible day count 1..7, so    *)
(*     that the division by nunique() and the products by 0.5 are exact.   *)
(*     Floating-point rounding is not modelled.                            *)
(*   - A calendar date is its day number; dates carry no time of day.      *)
(*   - A column name is the sequence of its characters.                    *)
(***************************************************************************)
EXTENDS Integers, Sequences, FiniteSets, TLC

VARIABLES
    csv,    \* rawData.csv: [header |-> column names, rows |-> rows of cells]
    call,   \* the operation last invoked, with its arguments
    ret     \* what it returned

vars == <<csv, call, ret>>

-----------------------------------------------------------------------------
(* Python values *)

None == <<>>

Some(v) == <<v>>

IsNone(x) == x = <<>>

Val(x) == x[1]

\* The length of every curve: the literal 24 of app.py.
HOURS == 24

\* One, in fixed point.
Unit == 840

\* The list whose elements are those of f, each computed once.
List(f) == f \o <<>>

\* [v] * n
Repeat(v, n) == List([i \in 1..n |-> v])

\* s[:n]
Take(s, n) == IF Len(s) <= n THEN s ELSE SubSeq(s, 1, n)

\* Python's list index, counted from 0.
At(s, i) == s[i + 1]

-----------------------------------------------------------------------------
(* Column names *)

DigitChars == <<"0", "1", "2", "3", "4", "5", "6", "7", "8", "9">>

IsDigit(c) == \E d \in 1..10 : DigitChars[d] = c

DigitVal(c) == (CHOOSE d \in 1..10 : DigitChars[d] = c) - 1

ACT_DATE == <<"a", "c", "t", "_", "d", "a", "t", "e">>

REGION == <<"r", "e", "g", "i", "o", "n">>

ZONE == <<"Z", "o", "n", "e">>

CHANNEL == <<"C", "h", "a", "n", "n", "e", "l">>

\* Whether name is one of the columns.
HasColumn(columns, name) == \E i \in 1..Len(columns) : columns[i] = name

\* The position of the column called name.
ColumnIndex(columns, name) ==
    CHOOSE i \in 1..Len(columns) :
        /\ columns[i] = name
        /\ \A j \in 1..(i - 1) : columns[j] # name

\* row[name]
Cell(df, row, name) == row[ColumnIndex(df.columns, name)]

-----------------------------------------------------------------------------
(* load_data *)

RECURSIVE FirstDigit(_, _)
\* The position of the first digit of col at or after i, 0 if there is none.
FirstDigit(col, i) ==
    IF i > Len(col) THEN 0
    ELSE IF IsDigit(col[i]) THEN i
    ELSE FirstDigit(col, i + 1)

RECURSIVE DigitRun(_, _, _)
\* int() of the run of digits of col that starts at i.
DigitRun(col, i, acc) ==
    IF i > Len(col) \/ ~IsDigit(col[i]) THEN acc
    ELSE DigitRun(col, i + 1, acc * 10 + DigitVal(col[i]))

\* The first run of digits in the name, 9999 when it has none.
_parse_hour_index(col) ==
    LET p == FirstDigit(col, 1)
    IN  IF p = 0 THEN 9999 ELSE DigitRun(col, p, 0)

\* str(c).lower().startswith("h")
IsHourColumn(c) == Len(c) > 0 /\ c[1] \in {"h", "H"}

RECURSIVE Positions(_, _)
\* The positions among the first n of mask that hold TRUE, in increasing order.
Positions(mask, n) ==
    IF n = 0 THEN <<>>
    ELSE IF mask[n] THEN Append(Positions(mask, n - 1), n)
    ELSE Positions(mask, n - 1)

RECURSIVE InsertIdx(_, _, _)
\* The sorted positions srt with position i added after every position whose
\* key is not greater than its own.
InsertIdx(srt, i, keys) ==
    IF Len(srt) = 0 THEN <<i>>
    ELSE IF keys[i] < keys[srt[Len(srt)]]
         THEN Append(InsertIdx(SubSeq(srt, 1, Len(srt) - 1), i, keys), srt[Len(srt)])
         ELSE Append(srt, i)

RECURSIVE SortIdx(_, _)
\* The first n positions of keys in increasing key order, equal keys in their
\* original order.
SortIdx(keys, n) ==
    IF n = 0 THEN <<>> ELSE InsertIdx(SortIdx(keys, n - 1), n, keys)

\* sorted(s, key=..): a stable sort, keys[i] being the key of s[i].
SortedByKey(s, keys) ==
    LET idx == SortIdx(keys, Len(s))
    IN  List([k \in 1..Len(s) |-> s[idx[k]]])

\* A cell of the file is text: a date, a number or anything else.
DateCell(d) == [kind |-> "date", day |-> d]

NumCell(n) == [kind |-> "num", n |-> n]

TextCell(t) == [kind |-> "text", text |-> t]

\* pd.to_datetime(cell, errors="coerce"): NaT unless the text is a date.
to_datetime(cell) == IF cell.kind = "date" THEN Some(cell.day) ELSE None

\* pd.to_numeric(cell, errors="coerce") followed by fillna(0).
to_numeric_fillna(cell) == IF cell.kind = "num" THEN cell.n * Unit ELSE 0

\* A text column as pandas reads it: NaN for an empty cell.
read_text(cell) ==
    IF cell.kind = "text" /\ Len(cell.text) > 0 THEN Some(cell.text) ELSE None

\* The data frame and the ordered hour columns read from the file.
load_data(file) ==
    LET cols == file.header
        hidx == Positions(List([c \in 1..Len(cols) |-> IsHourColumn(cols[c])]), Len(cols))
        hour_names == List([k \in 1..Len(hidx) |-> cols[hidx[k]]])
        hour_cols ==
            SortedByKey(hour_names,
                        List([k \in 1..Len(hour_names) |-> _parse_hour_index(hour_names[k])]))
        dcol == ColumnIndex(cols, ACT_DATE)
        Norm(row) ==
            List([c \in 1..Len(cols) |->
                IF c = dcol THEN to_datetime(row[c])
                ELSE IF IsHourColumn(cols[c]) THEN to_numeric_fillna(row[c])
                ELSE read_text(row[c])])
    IN  [df |-> [columns |-> cols,
                 rows |-> List([r \in 1..Len(file.rows) |-> Norm(file.rows[r])])],
         hour_cols |-> hour_cols]

-----------------------------------------------------------------------------
(* Data frame operations *)

\* df[mask]: the rows whose entry in the mask is True, in order.
Where(df, mask) ==
    LET idx == Positions(mask, Len(mask))
    IN  [columns |-> df.columns,
         rows |-> List([k \in 1..Len(idx) |-> df.rows[idx[k]]])]

\* df.empty
Empty(df) == Len(df.rows) = 0 \/ Len(df.columns) = 0

\* df["act_date"] == d, one truth value a row; NaT equals nothing.
OnDate(df, d) ==
    LET c == ColumnIndex(df.columns, ACT_DATE)
    IN  List([r \in 1..Len(df.rows) |-> df.rows[r][c] = Some(d)])

RECURSIVE SumCol(_, _, _)
\* The sum of column c over the first n rows.
SumCol(rows, c, n) == IF n = 0 THEN 0 ELSE SumCol(rows, c, n - 1) + rows[n][c]

\* df[hour_cols].sum(): one total per hour column, in hour_cols order.
Sum(df, hour_cols) ==
    List([k \in 1..Len(hour_cols) |->
        SumCol(df.rows, ColumnIndex(df.columns, hour_cols[k]), Len(df.rows))])

RECURSIVE SumTo(_, _)
\* s[0] + ... + s[n-1]
SumTo(s, n) == IF n = 0 THEN 0 ELSE SumTo(s, n - 1) + s[n]

\* Series.cumsum(): the running totals.
cumsum(s) == List([i \in 1..Len(s) |-> SumTo(s, i)])

-----------------------------------------------------------------------------
(* cumulative *)

\* A cumulative sum that restarts at every hour: no running total.
cumulative_NoRunningTotal(df, hour_cols) ==
    IF Empty(df) \/ Len(hour_cols) = 0 THEN Repeat(0, HOURS)
    ELSE LET v == Sum(df, hour_cols)
         IN  IF Len(v) < HOURS
             THEN v \o Repeat(v[Len(v)], HOURS - Len(v))
             ELSE Take(v, HOURS)

\* Missing hours padded with zero instead of the last total.
cumulative_ZeroPad(df, hour_cols) ==
    IF Empty(df) \/ Len(hour_cols) = 0 THEN Repeat(0, HOURS)
    ELSE LET v == cumsum(Sum(df, hour_cols))
         IN  IF Len(v) < HOURS
             THEN v \o Repeat(0, HOURS - Len(v))
             ELSE Take(v, HOURS)

cumulative(df, hour_cols) ==
    IF Empty(df) \/ Len(hour_cols) = 0 THEN Repeat(0, HOURS)
    ELSE LET v == cumsum(Sum(df, hour_cols))
         IN  IF Len(v) < HOURS
             THEN v \o Repeat(v[Len(v)], HOURS - Len(v))
             ELSE Take(v, HOURS)

-----------------------------------------------------------------------------
(* calculate_projection *)

\* 0.5 * x
Half(x) == x \div 2

\* (curve or [0]*24)[:24]
OrZeros(curve) == Take(IF Len(curve) = 0 THEN Repeat(0, HOURS) ELSE curve, HOURS)

\* The projection with growth measured from hour 0, not from the current hour.
calculate_projection_FromMidnight(prev_curve, last7_curve, current_hour, current_value) ==
    IF IsNone(current_hour) \/ Val(current_hour) >= HOURS - 1 THEN Repeat(None, HOURS)
    ELSE IF IsNone(current_value) THEN Repeat(None, HOURS)
    ELSE LET prev == OrZeros(prev_curve)
             last7 == OrZeros(last7_curve)
             base_prev == At(prev, 0)
             base_last7 == At(last7, 0)
         IN  List([n \in 1..HOURS |->
                 IF n - 1 < Val(current_hour) + 1 THEN None
                 ELSE Some(Val(current_value)
                           + Half(At(prev, n - 1) - base_prev)
                           + Half(At(last7, n - 1) - base_last7))])

\* The projection given up one hour early, at hour 22.
calculate_projection_StopsEarly(prev_curve, last7_curve, current_hour, current_value) ==
    IF IsNone(current_hour) \/ Val(current_hour) >= HOURS - 2 THEN Repeat(None, HOURS)
    ELSE IF IsNone(current_value) THEN Repeat(None, HOURS)
    ELSE LET prev == OrZeros(prev_curve)
             last7 == OrZeros(last7_curve)
             base_prev == At(prev, Val(current_hour))
             base_last7 == At(last7, Val(current_hour))
         IN  List([n \in 1..HOURS |->
                 IF n - 1 < Val(current_hour) + 1 THEN None
                 ELSE Some(Val(current_value)
                           + Half(At(prev, n - 1) - base_prev)
                           + Half(At(last7, n - 1) - base_last7))])

\* Entry i of the result is list element n = i + 1; range(current_hour + 1, 24)
\* leaves the entries up to current_hour at None.
calculate_projection(prev_curve, last7_curve, current_hour, current_value) ==
    IF IsNone(current_hour) \/ Val(current_hour) >= HOURS - 1 THEN Repeat(None, HOURS)
    ELSE IF IsNone(current_value) THEN Repeat(None, HOURS)
    ELSE LET prev == OrZeros(prev_curve)
             last7 == OrZeros(last7_curve)
             base_prev == At(prev, Val(current_hour))
             base_last7 == At(last7, Val(current_hour))
         IN  List([n \in 1..HOURS |->
                 IF n - 1 < Val(current_hour) + 1 THEN None
                 ELSE Some(Val(current_value)
                           + Half(At(prev, n - 1) - base_prev)
                           + Half(At(last7, n - 1) - base_last7))])

-----------------------------------------------------------------------------
(* filters *)

\* The characters of the model's texts in code-point order.
CodePoints ==
    DigitChars \o
    <<"A", "B", "C", "D", "E", "F", "G", "H", "I", "J", "K", "L", "M",
      "N", "O", "P", "Q", "R", "S", "T", "U", "V", "W", "X", "Y", "Z", "_",
      "a", "b", "c", "d", "e", "f", "g", "h", "i", "j", "k", "l", "m",
      "n", "o", "p", "q", "r", "s", "t", "u", "v", "w", "x", "y", "z">>

Code(c) == CHOOSE k \in 1..Len(CodePoints) : CodePoints[k] = c

RECURSIVE StrLessFrom(_, _, _)
\* a < b for two strings that agree before position i.
StrLessFrom(a, b, i) ==
    IF i > Len(a) THEN i <= Len(b)
    ELSE IF i > Len(b) THEN FALSE
    ELSE IF a[i] = b[i] THEN StrLessFrom(a, b, i + 1)
    ELSE Code(a[i]) < Code(b[i])

RECURSIVE SortedSet(_)
\* sorted() of a set of strings.
SortedSet(S) ==
    IF S = {} THEN <<>>
    ELSE LET m == CHOOSE x \in S : \A y \in S : ~StrLessFrom(y, x, 1)
         IN  <<m>> \o SortedSet(S \ {m})

\* sorted(df[name].dropna().astype(str).unique().tolist())
unique_sorted(df, name) ==
    LET c == ColumnIndex(df.columns, name)
    IN  SortedSet({Val(df.rows[r][c]) :
                     r \in {q \in 1..Len(df.rows) : ~IsNone(df.rows[q][c])}})

\* df[name].isin(values), one truth value a row; NaN is in no list.
isin(df, name, values) ==
    LET c == ColumnIndex(df.columns, name)
    IN  List([r \in 1..Len(df.rows) |->
            /\ ~IsNone(df.rows[r][c])
            /\ \E i \in 1..Len(values) : values[i] = Val(df.rows[r][c])])

\* df[name] = value: the column added, or overwritten.
SetColumn(df, name, value) ==
    IF HasColumn(df.columns, name)
    THEN [columns |-> df.columns,
          rows |-> List([r \in 1..Len(df.rows) |->
                      [df.rows[r] EXCEPT ![ColumnIndex(df.columns, name)] = value]])]
    ELSE [columns |-> Append(df.columns, name),
          rows |-> List([r \in 1..Len(df.rows) |-> Append(df.rows[r], value)])]

\* The rows of every date: the day is not narrowed.
df_day_of_AnyDate(df, sel_date) == df

\* df[df["act_date"] == sel_date]
df_day_of(df, sel_date) == Where(df, OnDate(df, sel_date))

\* The rows the zone list is read from.
df_for_zones(df_day, regions_selected) ==
    IF Len(regions_selected) > 0
    THEN Where(df_day, isin(df_day, REGION, regions_selected))
    ELSE df_day

\* The region list read from every row of the day, whatever zones are selected.
df_for_regions_AnyZone(df_day, zone_col, zones_selected) == df_day

\* The rows the region list is read from.
df_for_regions(df_day, zone_col, zones_selected) ==
    IF ~IsNone(zone_col) /\ Len(zones_selected) > 0
    THEN Where(df_day, isin(df_day, Val(zone_col), zones_selected))
    ELSE df_day

\* The rows the channel list is read from.
df_for_channels(df_day, zone_col, zones_selected, regions_selected) ==
    LET by_zone == df_for_regions(df_day, zone_col, zones_selected)
    IN  IF Len(regions_selected) > 0
        THEN Where(by_zone, isin(by_zone, REGION, regions_selected))
        ELSE by_zone

NoOptions == [zones |-> <<>>, regions |-> <<>>, channels |-> <<>>]

\* The response of GET /filters?date=..&zone=..&region=..
filters(file, date_str, zones_selected, regions_selected) ==
    LET df == load_data(file).df
        sel_date == to_datetime(date_str)
    IN  IF IsNone(sel_date) THEN NoOptions
        ELSE LET day == df_day_of(df, Val(sel_date))
                 zone_col == IF HasColumn(day.columns, ZONE) THEN Some(ZONE) ELSE None
             IN  IF ~HasColumn(day.columns, REGION) THEN NoOptions
                 ELSE LET df_day == IF HasColumn(day.columns, CHANNEL) THEN day
                                    ELSE SetColumn(day, CHANNEL, None)
                      IN  [zones |->
                               IF ~IsNone(zone_col)
                               THEN unique_sorted(df_for_zones(df_day, regions_selected), ZONE)
                               ELSE <<>>,
                           regions |->
                               unique_sorted(
                                   df_for_regions(df_day, zone_col, zones_selected), REGION),
                           channels |->
                               unique_sorted(
                                   df_for_channels(df_day, zone_col, zones_selected,
                                                   regions_selected), CHANNEL)]

-----------------------------------------------------------------------------
(* chart_data *)

\* The rows of the selected regions, zones and channels, over all dates.  The
\* region column is read without a test that it exists.
segment(df, regions, zones, channels) ==
    LET by_region ==
            IF Len(regions) > 0
            THEN Where(df, isin(df, REGION, regions))
            ELSE df
        by_zone ==
            IF Len(zones) > 0 /\ HasColumn(df.columns, ZONE)
            THEN Where(by_region, isin(by_region, ZONE, zones))
            ELSE by_region
    IN  IF Len(channels) > 0 /\ HasColumn(df.columns, CHANNEL)
        THEN Where(by_zone, isin(by_zone, CHANNEL, channels))
        ELSE by_zone

\* (df["act_date"] >= first) & (df["act_date"] <= last); NaT compares false.
Between(df, first, last) ==
    LET c == ColumnIndex(df.columns, ACT_DATE)
    IN  List([r \in 1..Len(df.rows) |->
            /\ ~IsNone(df.rows[r][c])
            /\ Val(df.rows[r][c]) >= first
            /\ Val(df.rows[r][c]) <= last])

\* df["act_date"].nunique()
nunique_dates(df) ==
    Cardinality({Val(Cell(df, df.rows[r], ACT_DATE)) :
                   r \in {q \in 1..Len(df.rows) :
                            ~IsNone(Cell(df, df.rows[q], ACT_DATE))}})

Max(a, b) == IF a >= b THEN a ELSE b

\* The average taken over the seven days of the window, present or not.
day_count_Seven(last7_df) == 7

\* max(last7_df["act_date"].nunique(), 1)
day_count(last7_df) == Max(nunique_dates(last7_df), 1)

\* The curve of the average day of the window.
last7_curve_of(df, hour_cols, last7_start, last7_end) ==
    LET last7_df == Where(df, Between(df, last7_start, last7_end))
    IN  IF ~Empty(last7_df) /\ Len(hour_cols) > 0
        THEN LET total == Sum(last7_df, hour_cols)
                 days == day_count(last7_df)
                 avg == List([k \in 1..Len(total) |-> total[k] \div days])
                 curve == cumsum(avg)
                 padded == IF Len(curve) < HOURS
                           THEN curve \o Repeat(curve[Len(curve)], HOURS - Len(curve))
                           ELSE curve
             IN  Take(padded, HOURS)
        ELSE Repeat(0, HOURS)

\* The actual curve cut one hour short: the current hour is left out.
base_curve_of_BeforeHour(base_raw, current_hour) ==
    List([n \in 1..HOURS |->
        IF IsNone(current_hour) \/ n - 1 < Val(current_hour)
        THEN Some(At(base_raw, n - 1)) ELSE None])

\* The actual curve: the raw curve up to the current hour, None after it.
base_curve_of(base_raw, current_hour) ==
    List([n \in 1..HOURS |->
        IF IsNone(current_hour) \/ n - 1 <= Val(current_hour)
        THEN Some(At(base_raw, n - 1)) ELSE None])

\* f"{(i%12 or 12)} {'AM' if i < 12 else 'PM'}"
label(i) == <<IF i % 12 = 0 THEN 12 ELSE i % 12, IF i < 12 THEN "AM" ELSE "PM">>

\* The payload for a date that parsed and rows already narrowed to the segment.
payload(df, hour_cols, sel_date, now) ==
    LET prev == sel_date - 1
        last7_start == sel_date - 7
        last7_end == sel_date - 1
        base_raw == cumulative(df_day_of(df, sel_date), hour_cols)
        prev_curve == cumulative(df_day_of(df, prev), hour_cols)
        last7_curve == last7_curve_of(df, hour_cols, last7_start, last7_end)
        current_hour == IF sel_date = now.date THEN Some(now.hour) ELSE None
        current_value ==
            IF ~IsNone(current_hour) THEN Some(At(base_raw, Val(current_hour))) ELSE None
    IN  [labels |-> List([n \in 1..HOURS |-> label(n - 1)]),
         base |-> base_curve_of(base_raw, current_hour),
         prev |-> prev_curve,
         last7 |-> last7_curve,
         projected |->
             calculate_projection(prev_curve, last7_curve, current_hour, current_value),
         current_hour |-> current_hour,
         live_point |-> current_value,
         dates |-> [base |-> sel_date, prev |-> prev,
                    last7 |-> <<last7_start, last7_end>>],
         last_refresh |-> now]

\* The response of GET /chart-data?date=..&region=..&zone=..&channel=..
\* df["region"] of a file with no region column raises KeyError, which the
\* server answers with status 500.
chart_data(file, date_str, regions, zones, channels, now) ==
    LET loaded == load_data(file)
        sel_date == to_datetime(date_str)
    IN  IF IsNone(sel_date)
        THEN [status |-> 400, body |-> [error |-> "Invalid date"]]
        ELSE IF Len(regions) > 0 /\ ~HasColumn(loaded.df.columns, REGION)
        THEN [status |-> 500, body |-> [error |-> "KeyError"]]
        ELSE [status |-> 200,
              body |-> payload(segment(loaded.df, regions, zones, channels),
                               loaded.hour_cols, Val(sel_date), now)]

-----------------------------------------------------------------------------
(* The files the model reads *)

\* str(j) for 0 <= j < 100.
HourDigits(j) ==
    IF j < 10 THEN <<DigitChars[j + 1]>>
    ELSE <<DigitChars[(j \div 10) + 1], DigitChars[(j % 10) + 1]>>

\* The hour column of hour j: "h0", "h1", ...
HourName(j) == <<"h">> \o HourDigits(j)

\* The hour columns h0 .. h(n-1), in order.
HourNames(n) == List([j \in 1..n |-> HourName(j - 1)])

\* A file's hour columns: none, six, one per hour, one too many, and a short
\* unordered list with a capital and a name that holds no number.
HourHeaders ==
    { HourNames(0), HourNames(6), HourNames(HOURS), HourNames(HOURS + 1),
      <<HourName(10), <<"H", "2">>, <<"h", "r", "s">>, HourName(0)>> }

\* The hour cells of a row: base + step * hour, or a number at the even hours
\* and text at the others.
Line(b, t) == [kind |-> "line", base |-> b, step |-> t]

Gaps == [kind |-> "gaps", base |-> 1, step |-> 0]

Patterns == {Line(0, 0), Line(1, 0), Line(1, 1), Line(1, -1), Gaps}

PatternCell(p, j) ==
    IF p.kind = "gaps" /\ j % 2 = 1 THEN TextCell(<<"x">>)
    ELSE NumCell(p.base + p.step * j)

Z1 == <<"Z", "1">>

Z2 == <<"Z", "2">>

R1 == <<"R", "1">>

R2 == <<"R", "2">>

Ch1 == <<"C", "1">>

Ch2 == <<"C", "2">>

\* The row of a file with these columns.
MakeRow(header, date, zone, region, channel, p) ==
    List([c \in 1..Len(header) |->
        IF header[c] = ACT_DATE THEN date
        ELSE IF header[c] = ZONE THEN TextCell(zone)
        ELSE IF header[c] = REGION THEN TextCell(region)
        ELSE IF header[c] = CHANNEL THEN TextCell(channel)
        ELSE PatternCell(p, _parse_hour_index(header[c]))])

\* The sequences of at most n elements of S.
SeqsUpTo(S, n) == UNION {[1..k -> S] : k \in 0..n}

-----------------------------------------------------------------------------
(* The curve builder alone *)

MaxCumRows == 2

CumDays == {1, 2}

CumFiles ==
    {[header |-> <<ACT_DATE, REGION>> \o hh, rows |-> rr] :
        hh \in HourHeaders,
        rr \in SeqsUpTo([day : CumDays, p : Patterns], MaxCumRows)}

CumFile(f) ==
    [header |-> f.header,
     rows |-> List([r \in 1..Len(f.rows) |->
                 MakeRow(f.header, DateCell(f.rows[r].day), <<>>, R1, <<>>,
                         f.rows[r].p)])]

InitCum ==
    /\ csv \in {CumFile(f) : f \in CumFiles}
    /\ call = [op |-> "none"]
    /\ ret = None

\* cumulative(df[df["act_date"] == d], hour_cols), as chart_data calls it.
CallCumulative(d) ==
    LET loaded == load_data(csv)
        sub == df_day_of(loaded.df, d)
    IN  /\ call.op = "none"
        /\ call' = [op |-> "cumulative", df |-> sub, hour_cols |-> loaded.hour_cols]
        /\ ret' = cumulative(sub, loaded.hour_cols)
        /\ UNCHANGED csv

NextCum == \E d \in CumDays : CallCumulative(d)

SpecCum == InitCum /\ [][NextCum]_vars

\* The value of the hour column hour_cols[k] in a row.
HourCell(df, row, hour_cols, k) == row[ColumnIndex(df.columns, hour_cols[k])]

\* Every hour count of the subset is non-negative.
NonNegative(df, hour_cols) ==
    \A r \in 1..Len(df.rows) : \A k \in 1..Len(hour_cols) :
        HourCell(df, df.rows[r], hour_cols, k) >= 0

\* C1: cumulative() returns exactly 24 values whatever the subset and the
\* number of hour fields, and the values never decrease from one hour to the
\* next when every hour count of the subset is non-negative.
C1_LengthAndMonotone ==
    call.op = "cumulative" =>
        /\ Len(ret) = HOURS
        /\ NonNegative(call.df, call.hour_cols) =>
               \A i \in 1..(HOURS - 1) : ret[i] <= ret[i + 1]

\* C1 happens: more than 24 hour fields, two rows of non-negative counts, a
\* curve that rises.
C1_Witness ==
    /\ call.op = "cumulative"
    /\ Len(call.hour_cols) > HOURS
    /\ Len(call.df.rows) = 2
    /\ NonNegative(call.df, call.hour_cols)
    /\ ret[1] > 0
    /\ ret[1] < ret[HOURS]

\* The running total c extended by the count v.
Extend(c, v) == Append(c, (IF Len(c) = 0 THEN 0 ELSE c[Len(c)]) + v)

RECURSIVE RowRunning(_, _, _)
\* The running totals of a row over the first n of its cells listed in at.
RowRunning(row, at, n) ==
    IF n = 0 THEN <<>>
    ELSE Extend(RowRunning(row, at, n - 1), row[at[n]])

\* The running totals of every row over the hour fields.
Running(df, hour_cols) ==
    LET at == List([k \in 1..Len(hour_cols) |-> ColumnIndex(df.columns, hour_cols[k])])
    IN  List([r \in 1..Len(df.rows) |-> RowRunning(df.rows[r], at, Len(at))])

RECURSIVE AcrossRows(_, _, _)
\* The totals through hour field n, added over the first r rows.
AcrossRows(running, n, r) ==
    IF r = 0 THEN 0 ELSE AcrossRows(running, n, r - 1) + running[r][n]

Min(a, b) == IF a <= b THEN a ELSE b

\* C6: with k > 0 hour fields, entry i of the curve is the cumulative sum
\* through field i for i <= k, and the k-th cumulative sum (not zero) for
\* every later hour; with more than 24 fields only the first 24 sums are kept.
C6_PaddedWithLastTotal ==
    (call.op = "cumulative" /\ Len(call.hour_cols) > 0) =>
        LET running == Running(call.df, call.hour_cols)
        IN  \A i \in 1..HOURS :
                ret[i] = AcrossRows(running, Min(i, Len(call.hour_cols)),
                                    Len(call.df.rows))

\* C6 happens: hours 0..5 with cumulative sums 1,3,6,10,15,21 give a curve
\* that stays at 21 to the end of the day.
C6_Witness ==
    /\ call.op = "cumulative"
    /\ Len(call.hour_cols) = 6
    /\ ret = [i \in 1..HOURS |->
                Unit * (IF i <= 6 THEN (i * (i + 1)) \div 2 ELSE 21)]

-----------------------------------------------------------------------------
(* The projection engine alone *)

MaxSlope == 4

\* The curve that starts at b and gains a every hour, n values long.
LineCurve(a, b, n) == List([i \in 1..n |-> (a * (i - 1) + b) * Unit])

\* Curves handed to the projection: straight lines, a curve that bends, a
\* list one value too long, and the empty list.
ProjCurves ==
    {LineCurve(a, b, HOURS) : a \in 0..MaxSlope, b \in {0, 25}}
        \cup {List([i \in 1..HOURS |-> (i * i) * Unit]),
              LineCurve(1, 0, HOURS + 1),
              <<>>}

ProjHours == {None} \cup {Some(h) : h \in 0..HOURS}

ProjValues == {None, Some(0), Some(50 * Unit)}

EmptyFile == [header |-> <<ACT_DATE, REGION>>, rows |-> <<>>]

InitProj ==
    /\ csv = EmptyFile
    /\ call = [op |-> "none"]
    /\ ret = None

CallProjection(prev_curve, last7_curve, current_hour, current_value) ==
    /\ call.op = "none"
    /\ call' = [op |-> "calculate_projection",
                prev_curve |-> prev_curve,
                last7_curve |-> last7_curve,
                current_hour |-> current_hour,
                current_value |-> current_value]
    /\ ret' = calculate_projection(prev_curve, last7_curve, current_hour, current_value)
    /\ UNCHANGED csv

NextProj ==
    \E p \in ProjCurves, l \in ProjCurves, h \in ProjHours, v \in ProjValues :
        CallProjection(p, l, h, v)

SpecProj == InitProj /\ [][NextProj]_vars

\* The call is calculate_projection with 24-value curves (or longer), a
\* current hour in 0..22 and a current value.
Projecting ==
    /\ call.op = "calculate_projection"
    /\ Len(call.prev_curve) >= HOURS
    /\ Len(call.last7_curve) >= HOURS
    /\ ~IsNone(call.current_hour)
    /\ Val(call.current_hour) \in 0..(HOURS - 2)
    /\ ~IsNone(call.current_value)

\* C2: with a current hour h in 0..22 and a current value, the projection has
\* 24 entries, those at hours <= h undefined and the one at every hour i > h
\* equal to currentValue + 0.5*(prev[i] - prev[h]) + 0.5*(last7[i] - last7[h]);
\* the equation is stated doubled.
C2_ProjectionFormula ==
    Projecting =>
        LET h == Val(call.current_hour)
        IN  /\ Len(ret) = HOURS
            /\ \A i \in 0..(HOURS - 1) :
                   IF i <= h THEN IsNone(At(ret, i))
                   ELSE /\ ~IsNone(At(ret, i))
                        /\ 2 * Val(At(ret, i)) =
                               2 * Val(call.current_value)
                               + (At(call.prev_curve, i) - At(call.prev_curve, h))
                               + (At(call.last7_curve, i) - At(call.last7_curve, h))

\* C2 happens: h = 10, currentValue = 50, prev 40 -> 60 and last7 45 -> 55
\* between hours 10 and 15 project 65 at hour 15.
C2_Witness ==
    /\ Projecting
    /\ call.current_hour = Some(10)
    /\ call.current_value = Some(50 * Unit)
    /\ At(call.prev_curve, 10) = 40 * Unit /\ At(call.prev_curve, 15) = 60 * Unit
    /\ At(call.last7_curve, 10) = 45 * Unit /\ At(call.last7_curve, 15) = 55 * Unit
    /\ At(ret, 15) = Some(65 * Unit)
    /\ IsNone(At(ret, 10))

\* No projection is asked for: no current hour, hour 23 or later, no value.
NoProjection ==
    \/ IsNone(call.current_hour)
    \/ Val(call.current_hour) >= HOURS - 1
    \/ IsNone(call.current_value)

\* C3: the projection is 24 undefined entries when the current hour is
\* undefined or >= 23 or the current value is undefined, whatever the two
\* curves hold; in every other case at least one entry is defined.
C3_AllUndefinedOrSome ==
    call.op = "calculate_projection" =>
        IF NoProjection THEN ret = Repeat(None, HOURS)
        ELSE \E i \in 0..(HOURS - 1) : ~IsNone(At(ret, i))

\* C3 happens: at hour 22 of rising curves one entry, the last, is projected.
C3_Witness ==
    /\ call.op = "calculate_projection"
    /\ call.current_hour = Some(HOURS - 2)
    /\ call.current_value = Some(50 * Unit)
    /\ Len(call.prev_curve) = HOURS
    /\ At(call.prev_curve, HOURS - 1) > At(call.prev_curve, 0)
    /\ ~IsNone(At(ret, HOURS - 1))
    /\ \A i \in 0..(HOURS - 2) : IsNone(At(ret, i))

-----------------------------------------------------------------------------
(* The filter resolver alone *)

MaxFilterRows == 2

\* The last day a file may hold; the day asked for is the day before it.
MaxDay == 9

DayD == MaxDay - 1

OtherDay == DayD - 1

NotADate == TextCell(<<"x">>)

RECURSIVE SubsetsUpTo(_, _)
\* The subsets of S of at most n elements.
SubsetsUpTo(S, n) ==
    IF n = 0 THEN {{}}
    ELSE LET P == SubsetsUpTo(S, n - 1)
         IN  P \cup {T \cup {x} : T \in P, x \in S}

RECURSIVE SetToSeq(_)
\* The elements of S in some order.
SetToSeq(S) ==
    IF S = {} THEN <<>>
    ELSE LET x == CHOOSE y \in S : TRUE
         IN  <<x>> \o SetToSeq(S \ {x})

\* The kinds of row of the filter files: two days, two zones, two regions, two
\* channels, and rows with an unreadable date or an empty cell.
FilterRowKinds ==
    {[date |-> DateCell(d), zone |-> z, region |-> r, channel |-> c] :
        d \in {DayD, OtherDay}, z \in {Z1, Z2}, r \in {R1, R2}, c \in {Ch1, Ch2}}
    \cup {[date |-> NotADate, zone |-> Z1, region |-> R1, channel |-> Ch1],
          [date |-> DateCell(DayD), zone |-> <<>>, region |-> R1, channel |-> Ch1],
          [date |-> DateCell(DayD), zone |-> Z1, region |-> <<>>, channel |-> Ch1],
          [date |-> DateCell(DayD), zone |-> Z1, region |-> R1, channel |-> <<>>]}

\* Files with every column, without Zone, without Channel, without region.
FilterHeaders ==
    { <<ACT_DATE, REGION, ZONE, CHANNEL, HourName(0)>>,
      <<ACT_DATE, REGION, CHANNEL, HourName(0)>>,
      <<ACT_DATE, REGION, ZONE, HourName(0)>>,
      <<ACT_DATE, ZONE, CHANNEL, HourName(0)>> }

FilterFile(header, kinds) ==
    LET ks == SetToSeq(kinds)
    IN  [header |-> header,
         rows |-> List([i \in 1..Len(ks) |->
                     MakeRow(header, ks[i].date, ks[i].zone, ks[i].region,
                             ks[i].channel, Line(1, 0))])]

InitFilters ==
    /\ csv \in {FilterFile(h, K) :
                  h \in FilterHeaders, K \in SubsetsUpTo(FilterRowKinds, MaxFilterRows)}
    /\ call = [op |-> "none"]
    /\ ret = None

\* GET /filters
Filters(date_str, zones_selected, regions_selected) ==
    /\ call.op = "none"
    /\ call' = [op |-> "filters", date_str |-> date_str,
                zones_selected |-> zones_selected,
                regions_selected |-> regions_selected,
                df |-> load_data(csv).df, hour_cols |-> load_data(csv).hour_cols]
    /\ ret' = filters(csv, date_str, zones_selected, regions_selected)
    /\ UNCHANGED csv

NextFilters ==
    \E d \in {DateCell(DayD), NotADate}, zs \in {<<>>, <<Z2>>, <<Z1, Z2>>},
       rs \in {<<>>, <<R1>>} :
        Filters(d, zs, rs)

SpecFilters == InitFilters /\ [][NextFilters]_vars

\* The elements of a list.
Elems(q) == {q[i] : i \in 1..Len(q)}

\* The data frame the handler read from the file.
TheFrame == call.df

\* row[name], NaN when the file has no such column.
Field(row, name) ==
    IF HasColumn(TheFrame.columns, name) THEN Cell(TheFrame, row, name) ELSE None

\* The rows of the file dated d.
RowsOn(d) ==
    {TheFrame.rows[r] :
        r \in {q \in 1..Len(TheFrame.rows) : Field(TheFrame.rows[q], ACT_DATE) = Some(d)}}

\* No value is selected, or the row's value is one of those selected.
Allowed(row, name, selected) ==
    Len(selected) = 0 \/ (~IsNone(Field(row, name)) /\ Val(Field(row, name)) \in Elems(selected))

\* The values of a column over a set of rows.
ValuesOf(rows, name) ==
    {Val(Field(row, name)) : row \in {q \in rows : ~IsNone(Field(q, name))}}

\* The call is filters with a date that parses.
ResolvingFilters == call.op = "filters" /\ call.date_str.kind = "date"

\* C4 as stated: zones are those of the day's rows in the selected regions,
\* regions those of the day's rows in the selected zones, channels those of
\* the day's rows in both, on every file.
C4_AsStated ==
    ResolvingFilters =>
        LET day == RowsOn(call.date_str.day)
        IN  /\ Elems(ret.zones) =
                   ValuesOf({q \in day : Allowed(q, REGION, call.regions_selected)}, ZONE)
            /\ Elems(ret.regions) =
                   ValuesOf({q \in day : Allowed(q, ZONE, call.zones_selected)}, REGION)
            /\ Elems(ret.channels) =
                   ValuesOf({q \in day : /\ Allowed(q, ZONE, call.zones_selected)
                                         /\ Allowed(q, REGION, call.regions_selected)},
                            CHANNEL)

\* C4, amended: as stated on a file with a region column, the selected zones
\* restricting nothing when the file has no zone column; on a file without a
\* region column the three sets are empty.
C4_Hierarchy ==
    ResolvingFilters =>
        LET day == RowsOn(call.date_str.day)
            zones_selected ==
                IF HasColumn(csv.header, ZONE) THEN call.zones_selected ELSE <<>>
        IN  IF ~HasColumn(csv.header, REGION) THEN ret = NoOptions
            ELSE /\ Elems(ret.zones) =
                        ValuesOf({q \in day : Allowed(q, REGION, call.regions_selected)},
                                 ZONE)
                 /\ Elems(ret.regions) =
                        ValuesOf({q \in day : Allowed(q, ZONE, zones_selected)}, REGION)
                 /\ Elems(ret.channels) =
                        ValuesOf({q \in day : /\ Allowed(q, ZONE, zones_selected)
                                              /\ Allowed(q, REGION, call.regions_selected)},
                                 CHANNEL)

\* C4 happens: rows (D, Z1, R1) and (D, Z2, R2), region R1 and zone Z2 selected:
\* the zones are [Z1], the regions [R2], and no channel is in both.
C4_Witness ==
    /\ ResolvingFilters
    /\ HasColumn(csv.header, ZONE) /\ HasColumn(csv.header, REGION)
    /\ Len(csv.rows) = 2
    /\ ValuesOf(RowsOn(call.date_str.day), ZONE) = {Z1, Z2}
    /\ call.regions_selected = <<R1>>
    /\ call.zones_selected = <<Z2>>
    /\ ret.zones = <<Z1>>
    /\ ret.regions = <<R2>>
    /\ ret.channels = <<>>

\* The text of a cell of the file itself, empty when the file has no such column.
RawText(row, name) ==
    IF HasColumn(csv.header, name)
    THEN LET cell == row[ColumnIndex(csv.header, name)]
         IN  IF cell.kind = "text" THEN cell.text ELSE <<>>
    ELSE <<>>

\* Some row of the file is dated exactly date_str and holds text in column name.
SeenOnDay(text, name) ==
    \E r \in 1..Len(csv.rows) :
        /\ csv.rows[r][ColumnIndex(csv.header, ACT_DATE)] = call.date_str
        /\ RawText(csv.rows[r], name) = text

\* C5: every zone, region and channel returned is the zone, region or channel
\* of a row of the file whose date is exactly the date asked for; nothing is
\* returned for a date that does not parse.
C5_OnlyTheDay ==
    call.op = "filters" =>
        /\ call.date_str.kind # "date" => ret = NoOptions
        /\ \A z \in Elems(ret.zones) : SeenOnDay(z, ZONE)
        /\ \A g \in Elems(ret.regions) : SeenOnDay(g, REGION)
        /\ \A c \in Elems(ret.channels) : SeenOnDay(c, CHANNEL)

\* C5 happens: a row of another day lies in the selected region with a zone
\* and a channel of its own, and neither is returned.
C5_Witness ==
    /\ ResolvingFilters
    /\ call.regions_selected = <<R1>>
    /\ \E r \in 1..Len(csv.rows) :
           /\ csv.rows[r][ColumnIndex(csv.header, ACT_DATE)] = DateCell(OtherDay)
           /\ RawText(csv.rows[r], REGION) = R1
           /\ RawText(csv.rows[r], ZONE) = Z2
           /\ RawText(csv.rows[r], CHANNEL) = Ch2
    /\ ret.zones = <<Z1>>
    /\ ret.regions = <<R1>>
    /\ ret.channels = <<Ch1>>

-----------------------------------------------------------------------------
(* The dashboard: the file and one request *)

\* Files with every column and 24 hours, with six hours, with no hour column,
\* without Zone and Channel, and without region.
ChartHeaders ==
    { <<ACT_DATE, REGION, ZONE, CHANNEL>> \o HourNames(HOURS),
      <<ACT_DATE, REGION, ZONE, CHANNEL>> \o HourNames(6),
      <<ACT_DATE, REGION, ZONE, CHANNEL>>,
      <<ACT_DATE, REGION>> \o HourNames(HOURS),
      <<ACT_DATE, ZONE, CHANNEL>> \o HourNames(6) }

\* The runs of consecutive days a file covers with one row a day.
DayRuns == {<<a, b>> : a \in 0..MaxDay, b \in 0..MaxDay}

\* One more row: on the day asked for, the day before, the day before the
\* window, or with an unreadable date; in region R1 or R2.
ExtraRows ==
    {<<>>} \cup
    {<<[date |-> d, region |-> r]>> :
        d \in {DateCell(DayD), DateCell(DayD - 1), DateCell(DayD - 8), NotADate},
        r \in {R1, R2}}

\* One row a day from day run[1] to day run[2], one count an hour, in zone Z1,
\* region R1 and channel Ch1; then the extra row, its counts 1, 2, 3, ...
ChartFile(header, run, extra) ==
    [header |-> header,
     rows |->
         List([i \in 1..(IF run[2] >= run[1] THEN run[2] - run[1] + 1 ELSE 0) |->
                 MakeRow(header, DateCell(run[1] + i - 1), Z1, R1, Ch1, Line(1, 0))])
         \o List([i \in 1..Len(extra) |->
                 MakeRow(header, extra[i].date, Z2, extra[i].region, Ch2, Line(1, 1))])]

Init ==
    /\ csv \in {ChartFile(h, run, x) :
                  h \in ChartHeaders,
                  run \in {q \in DayRuns : q[1] <= q[2] \/ q = <<1, 0>>},
                  x \in ExtraRows}
    /\ call = [op |-> "none"]
    /\ ret = None

\* The clock of the server: a day and an hour.
Clocks ==
    {[date |-> DayD, hour |-> h] : h \in {5, HOURS - 1}}
        \cup {[date |-> DayD + 1, hour |-> 3]}

\* The selections of a request: regions, zones, channels.
Selections ==
    { <<<<>>, <<>>, <<>>>>, <<<<R1>>, <<>>, <<>>>>, <<<<R2>>, <<>>, <<>>>>,
      <<<<>>, <<Z1>>, <<Ch1>>>> }

\* GET /chart-data
ChartData(date_str, regions, zones, channels, now) ==
    /\ call.op = "none"
    /\ call' = [op |-> "chart_data", date_str |-> date_str, regions |-> regions,
                zones |-> zones, channels |-> channels, now |-> now,
                df |-> load_data(csv).df, hour_cols |-> load_data(csv).hour_cols]
    /\ ret' = chart_data(csv, date_str, regions, zones, channels, now)
    /\ UNCHANGED csv

Next ==
    \/ \E sel \in Selections, now \in Clocks :
           ChartData(DateCell(DayD), sel[1], sel[2], sel[3], now)
    \/ \E now \in Clocks : ChartData(NotADate, <<R1>>, <<>>, <<>>, now)
    \/ NextFilters
    \/ \E d \in {DayD, DayD - 1} : CallCumulative(d)

Spec == Init /\ [][Next]_vars

\* The call is chart_data and the response is a payload.
Charted == call.op = "chart_data" /\ ret.status = 200

\* The rows of the file in the selected regions, zones and channels; a
\* selection on a column the file does not have selects every row.
InSegment(row) ==
    /\ Allowed(row, REGION, call.regions)
    /\ HasColumn(csv.header, ZONE) => Allowed(row, ZONE, call.zones)
    /\ HasColumn(csv.header, CHANNEL) => Allowed(row, CHANNEL, call.channels)

\* The rows of the segment dated from first to last.
SegmentRows(first, last) ==
    Where(TheFrame,
          List([r \in 1..Len(TheFrame.rows) |->
              /\ InSegment(TheFrame.rows[r])
              /\ ~IsNone(Field(TheFrame.rows[r], ACT_DATE))
              /\ Val(Field(TheFrame.rows[r], ACT_DATE)) \in first..last]))

TheHours == call.hour_cols

\* The counts of the rows through each hour of the day, the last hour field
\* standing for the hours after it; zeros without hour fields.
Through(rows) ==
    LET running == Running(rows, TheHours)
    IN  List([n \in 1..HOURS |->
            IF Len(TheHours) = 0 THEN 0
            ELSE AcrossRows(running, Min(n, Len(TheHours)), Len(rows.rows))])

\* C7 as stated: chart-data answers with an error exactly when the date does
\* not parse; a date that parses always gets a payload.
C7_ErrorIffBadDate ==
    call.op = "chart_data" => (ret.status # 200 <=> call.date_str.kind # "date")

\* C8 as stated: nothing that matches is a default and never an error:
\* cumulative() of no row or no hour field is 24 zeros; chart-data for a date
\* that parses answers with a payload whose today, previous and average
\* curves are zero when no row of the segment is dated for them; filters for
\* a day without rows returns three empty sets.
C8_DefaultsNotErrors ==
    /\ (call.op = "cumulative" /\ (Len(call.df.rows) = 0 \/ Len(call.hour_cols) = 0)) =>
           ret = Repeat(0, HOURS)
    /\ (ResolvingFilters /\ RowsOn(call.date_str.day) = {}) => ret = NoOptions
    /\ (call.op = "chart_data" /\ call.date_str.kind = "date") =>
           LET d == call.date_str.day
           IN  /\ ret.status = 200
               /\ Len(SegmentRows(d, d).rows) = 0 =>
                      \A i \in 0..(HOURS - 1) :
                          At(ret.body.base, i) \in {None, Some(0)}
               /\ Len(SegmentRows(d - 1, d - 1).rows) = 0 =>
                      ret.body.prev = Repeat(0, HOURS)
               /\ Len(SegmentRows(d - 7, d - 1).rows) = 0 =>
                      ret.body.last7 = Repeat(0, HOURS)

\* C9: when the clock is on the day asked for, the actual curve is today's
\* raw cumulative curve up to the current hour and undefined after it, and
\* the live point is the raw value at the current hour; on any other day the
\* actual curve is the whole raw curve and the live point is undefined.
C9_ActualAndLivePoint ==
    Charted =>
        LET d == call.date_str.day
            raw == Through(SegmentRows(d, d))
        IN  IF call.now.date = d
            THEN /\ ret.body.current_hour = Some(call.now.hour)
                 /\ \A i \in 0..(HOURS - 1) :
                        At(ret.body.base, i) =
                            IF i <= call.now.hour THEN Some(At(raw, i)) ELSE None
                 /\ ret.body.live_point = Some(At(raw, call.now.hour))
            ELSE /\ IsNone(ret.body.current_hour)
                 /\ \A i \in 0..(HOURS - 1) : At(ret.body.base, i) = Some(At(raw, i))
                 /\ IsNone(ret.body.live_point)

\* C9 happens: at hour 5 of a day with one count an hour the actual curve is
\* 1, 2, .., 6 and then undefined, and the live point is 6.
C9_Witness ==
    /\ Charted
    /\ call.now = [date |-> call.date_str.day, hour |-> 5]
    /\ \A i \in 0..5 : At(ret.body.base, i) = Some((i + 1) * Unit)
    /\ \A i \in 6..(HOURS - 1) : IsNone(At(ret.body.base, i))
    /\ ret.body.live_point = Some(6 * Unit)
    /\ At(ret.body.projected, 6) = Some(7 * Unit)

\* The days from D-7 to D-1 on which the segment has a row.
DaysPresent(window) ==
    {Val(Field(window.rows[r], ACT_DATE)) : r \in 1..Len(window.rows)}

\* C10: the trailing-average curve times the number m of days of D-7..D-1 on
\* which the segment has rows equals the counts of those rows through each
\* hour: the divisor is m, not 7; with a row on each of the seven days and
\* the same counts on every one of them the curve is the curve of one day.
C10_AverageOverDaysPresent ==
    Charted =>
        LET d == call.date_str.day
            window == SegmentRows(d - 7, d - 1)
            m == Cardinality(DaysPresent(window))
            counts == Through(window)
        IN  /\ Len(ret.body.last7) = HOURS
            /\ \A i \in 0..(HOURS - 1) :
                   m * At(ret.body.last7, i) = At(counts, i)
            /\ m = 0 => ret.body.last7 = Repeat(0, HOURS)
            /\ (m = 7 /\ Len(window.rows) = 7
                  /\ \A r \in 1..7 : \A k \in 1..Len(TheHours) :
                         HourCell(window, window.rows[r], TheHours, k) =
                             HourCell(window, window.rows[1], TheHours, k))
                   => ret.body.last7 = ret.body.prev

\* C10 happens: rows on three of the seven days, one count an hour each: the
\* average day is one count an hour, not three sevenths.
C10_Witness ==
    /\ Charted
    /\ Cardinality(DaysPresent(SegmentRows(call.date_str.day - 7,
                                           call.date_str.day - 1))) = 3
    /\ Len(TheHours) = HOURS
    /\ ret.body.last7 = List([n \in 1..HOURS |-> n * Unit])

=============================================================================
